---- MODULE Spec2Model ----
(***************************************************************************)
(* Model of lib/strategy.js of passport-http-custom-bearer: the Strategy   *)
(* constructor (field-name resolution), Strategy.prototype.authenticate    *)
(* (credential location), the verified result handler and                  *)
(* Strategy.prototype._challenge.                                          *)
(*                                                                         *)
(* Representation.  A JavaScript object is a function whose DOMAIN is the  *)
(* set of properties it has; a property that is undefined is simply not in *)
(* the DOMAIN, and <<>> is the object {}.  Field names, header values and  *)
(* tokens are strings the code takes apart (replace, toLowerCase, split,   *)
(* test): they are sequences of one-character strings.  Realm, scope       *)
(* values, error codes and descriptions are only concatenated: they are    *)
(* TLA+ strings.  Where the code asks for the type of a value (typeof,     *)
(* Array.isArray) the value carries a type tag.                            *)
(*                                                                         *)
(* State.  options: the options the strategy was constructed from; self:   *)
(* the fields of the strategy; att: the authentication attempts, each with *)
(* its request, the calls of verify it made, the arguments its result      *)
(* handler got and the outcomes it emitted; built: the arguments and the   *)
(* text of the last challenge _challenge returned to a direct caller.      *)
(***************************************************************************)
EXTENDS Integers, Sequences, FiniteSets, TLC

VARIABLES options, self, att, built

vars == <<options, self, att, built>>

(***************************************************************************)
(* Bounds of the model.                                                    *)
(***************************************************************************)
\* longest header value, counted in space-separated parts
MaxParts == 3
\* longest supplied field name, counted in characters
MaxNameLen == 3
\* longest configured scope, counted in values
MaxScopeLen == 2
\* attempts in progress at the same time on one strategy
NumAttempts == 2

(***************************************************************************)
(* Strings as sequences of characters.                                     *)
(***************************************************************************)
UpperChars == <<"A","B","C","D","E","F","G","H","I","J","K","L","M",
                "N","O","P","Q","R","S","T","U","V","W","X","Y","Z">>

LowerChars == <<"a","b","c","d","e","f","g","h","i","j","k","l","m",
                "n","o","p","q","r","s","t","u","v","w","x","y","z">>

\* String.prototype.toLowerCase, one character
ToLowerChar(c) ==
  IF \E i \in 1..26 : UpperChars[i] = c
    THEN LowerChars[CHOOSE i \in 1..26 : UpperChars[i] = c]
    ELSE c

\* String.prototype.toLowerCase
ToLowerCase(s) == [i \in 1..Len(s) |-> ToLowerChar(s[i])]

\* s.replace(/^X\-/i, ''): drops one leading "X-" or "x-", if there is one
ReplaceMarker(s) ==
  IF Len(s) >= 2 /\ ToLowerChar(s[1]) = "x" /\ s[2] = "-"
    THEN SubSeq(s, 3, Len(s))
    ELSE s

\* s.split(' '): the pieces between the spaces, empty pieces included
RECURSIVE Split(_)
Split(s) ==
  IF \E i \in 1..Len(s) : s[i] = " "
    THEN LET i == CHOOSE i \in 1..Len(s) :
                    s[i] = " " /\ \A j \in 1..(i-1) : s[j] # " "
         IN  <<SubSeq(s, 1, i-1)>> \o Split(SubSeq(s, i+1, Len(s)))
    ELSE <<s>>

\* IsBearer as it would be without the i flag
IsBearer_CaseSensitive(scheme) == scheme = <<"B","e","a","r","e","r">>

\* /^Bearer$/i.test(scheme)
IsBearer(scheme) == ToLowerCase(scheme) = <<"b","e","a","r","e","r">>

\* Array.prototype.join on TLA+ strings
RECURSIVE Join(_, _)
Join(arr, sep) ==
  IF Len(arr) = 0 THEN ""
  ELSE IF Len(arr) = 1 THEN arr[1]
  ELSE arr[1] \o sep \o Join(Tail(arr), sep)

(***************************************************************************)
(* Property access and truthiness.                                         *)
(***************************************************************************)
\* obj has property k with a value other than undefined
Has(obj, k) == k \in DOMAIN obj

\* obj[k] is truthy, for a property holding a character string
TruthyStr(obj, k) == Has(obj, k) /\ obj[k] # <<>>

\* obj[k] is truthy, for a property holding a TLA+ string
TruthyText(obj, k) == Has(obj, k) /\ obj[k] # ""

(***************************************************************************)
(* The constructor.                                                        *)
(***************************************************************************)
\* getCustomHeaders as it would be without toLowerCase()
GetCustomHeaders_NoLowerCase(opts, which) ==
  IF TruthyStr(opts, which)
    THEN LET f == ReplaceMarker(opts[which])
         IN  IF which = "headerName" THEN <<"x","-">> \o f ELSE f
    ELSE <<>>

\* getCustomHeaders as it would be without the replace() of the marker
GetCustomHeaders_NoReplace(opts, which) ==
  IF TruthyStr(opts, which)
    THEN LET f == ToLowerCase(opts[which])
         IN  IF which = "headerName" THEN <<"x","-">> \o f ELSE f
    ELSE <<>>

\* getCustomHeaders(options, which); the result <<>> stands for both ''
\* and undefined, which the callers' || treats alike
GetCustomHeaders(opts, which) ==
  IF TruthyStr(opts, which)
    THEN LET f == ToLowerCase(ReplaceMarker(opts[which]))
         IN  IF which = "headerName" THEN <<"x","-">> \o f ELSE f
    ELSE <<>>

\* a || b on character strings
OrElse(a, b) == IF a # <<>> THEN a ELSE b

DefaultHeaderName == <<"a","u","t","h","o","r","i","z","a","t","i","o","n">>

DefaultFieldName == <<"a","c","c","e","s","s","_","t","o","k","e","n">>

\* new Strategy(options, verify), verify supplied: the fields of the instance
Strategy(opts) ==
  LET props == {"name", "_realm", "_headerName", "_bodyName", "_queryName"}
                 \cup (IF Has(opts, "scope")
                            /\ (opts.scope.type = "array" \/ opts.scope.val # "")
                         THEN {"_scope"} ELSE {})
                 \cup (IF Has(opts, "passReqToCallback")
                         THEN {"_passReqToCallback"} ELSE {})
  IN  [p \in props |->
        CASE p = "name" -> "custom-bearer"
          [] p = "_realm" ->
               IF TruthyText(opts, "realm") THEN opts.realm ELSE "Users"
          [] p = "_scope" ->
               IF opts.scope.type = "array" THEN opts.scope.val
                                            ELSE <<opts.scope.val>>
          [] p = "_headerName" ->
               OrElse(GetCustomHeaders(opts, "headerName"), DefaultHeaderName)
          [] p = "_bodyName" ->
               OrElse(GetCustomHeaders(opts, "bodyName"), DefaultFieldName)
          [] p = "_queryName" ->
               OrElse(GetCustomHeaders(opts, "queryName"), DefaultFieldName)
          [] p = "_passReqToCallback" -> opts.passReqToCallback]

(***************************************************************************)
(* Strategy.prototype._challenge.                                          *)
(***************************************************************************)
\* _challenge as it would be if the error field were always written
Challenge_AlwaysError(this, args) ==
  "Bearer realm=\"" \o this._realm \o "\""
    \o (IF Has(this, "_scope")
          THEN ", scope=\"" \o Join(this._scope, " ") \o "\"" ELSE "")
    \o ", error=\"" \o (IF Has(args, "code") THEN args.code ELSE "") \o "\""
    \o (IF TruthyText(args, "desc")
          THEN ", error_description=\"" \o args.desc \o "\"" ELSE "")
    \o (IF TruthyText(args, "uri")
          THEN ", error_uri=\"" \o args.uri \o "\"" ELSE "")

\* _challenge(code, desc, uri); args holds the arguments that were passed
Challenge(this, args) ==
  LET c0 == "Bearer realm=\"" \o this._realm \o "\""
      c1 == IF Has(this, "_scope")
              THEN c0 \o ", scope=\"" \o Join(this._scope, " ") \o "\""
              ELSE c0
      c2 == IF TruthyText(args, "code")
              THEN c1 \o ", error=\"" \o args.code \o "\""
              ELSE c1
      c3 == IF TruthyText(args, "desc")
              THEN c2 \o ", error_description=\"" \o args.desc \o "\""
              ELSE c2
      c4 == IF TruthyText(args, "uri")
              THEN c3 \o ", error_uri=\"" \o args.uri \o "\""
              ELSE c3
  IN  c4

(***************************************************************************)
(* Outcomes handed to the dispatcher: this.fail, this.error, this.success. *)
(***************************************************************************)
FailStatus(n) == [kind |-> "fail", arg |-> [status |-> n]]

FailChallenge(c) == [kind |-> "fail", arg |-> [challenge |-> c]]

Error(err) == [kind |-> "error", err |-> err]

Success(user, info) == [kind |-> "success", user |-> user, info |-> info]

(***************************************************************************)
(* Strategy.prototype.authenticate: locating the credential.               *)
(***************************************************************************)
\* req[loc] && req[loc][key]
Located(req, loc, key) ==
  Has(req, loc) /\ Has(req[loc], key) /\ req[loc][key] # <<>>

\* HeaderCheck as it would be if a malformed value were skipped, not rejected
HeaderCheck_Lenient(this, req) ==
  IF Located(req, "headers", this._headerName)
    THEN LET parts == Split(req.headers[this._headerName])
         IN  [returned |-> FALSE,
              token |-> IF Len(parts) = 2 /\ IsBearer(parts[1])
                          THEN parts[2] ELSE <<>>]
    ELSE [returned |-> FALSE, token |-> <<>>]

\* HeaderCheck as it would be if a scheme other than Bearer were rejected
HeaderCheck_StrictScheme(this, req) ==
  IF Located(req, "headers", this._headerName)
    THEN LET parts == Split(req.headers[this._headerName])
         IN  IF Len(parts) = 2 /\ IsBearer(parts[1])
               THEN [returned |-> FALSE, token |-> parts[2]]
               ELSE [returned |-> TRUE, token |-> <<>>]
    ELSE [returned |-> FALSE, token |-> <<>>]

\* the header block: returned is TRUE when it ended in return this.fail(400);
\* a token of <<>> is a token that is undefined or '', both falsy
HeaderCheck(this, req) ==
  IF Located(req, "headers", this._headerName)
    THEN LET parts == Split(req.headers[this._headerName])
         IN  IF Len(parts) = 2
               THEN [returned |-> FALSE,
                     token |-> IF IsBearer(parts[1]) THEN parts[2] ELSE <<>>]
               ELSE [returned |-> TRUE, token |-> <<>>]
    ELSE [returned |-> FALSE, token |-> <<>>]

\* FieldCheck as it would be if a later location took precedence
FieldCheck_LastWins(prev, req, loc, key) ==
  IF prev.returned \/ ~Located(req, loc, key)
    THEN prev
    ELSE [returned |-> FALSE, token |-> req[loc][key]]

\* a body or query block, entered with the result of the blocks before it
FieldCheck(prev, req, loc, key) ==
  IF prev.returned \/ ~Located(req, loc, key)
    THEN prev
    ELSE IF prev.token # <<>>
           THEN [returned |-> TRUE, token |-> prev.token]
           ELSE [returned |-> FALSE, token |-> req[loc][key]]

\* the three blocks in the order of the code: header, body, query
Locate(this, req) ==
  FieldCheck(FieldCheck(HeaderCheck(this, req), req, "body", this._bodyName),
             req, "query", this._queryName)

\* the arguments this._verify is called with
VerifyArgs(this, req, token) ==
  IF Has(this, "_passReqToCallback") /\ this._passReqToCallback
    THEN <<req, token, "verified">>
    ELSE <<token, "verified">>

\* an attempt that has not begun
Idle == [pc |-> "idle", req |-> <<>>, calls |-> <<>>, outcomes |-> <<>>,
         result |-> <<>>]

\* authenticate as it would be if it kept the located token on the strategy
Authenticate_KeepingToken(a, req) ==
  /\ att[a].pc = "idle"
  /\ LET loc == Locate(self, req)
     IN  /\ att' = [att EXCEPT ![a] =
              IF loc.returned
                THEN [Idle EXCEPT !.pc = "done", !.req = req,
                                  !.outcomes = <<FailStatus(400)>>]
              ELSE IF loc.token = <<>>
                THEN [Idle EXCEPT !.pc = "done", !.req = req,
                        !.outcomes = <<FailChallenge(Challenge(self, <<>>))>>]
              ELSE [Idle EXCEPT !.pc = "verifying", !.req = req,
                                !.calls = <<VerifyArgs(self, req, loc.token)>>]]
         /\ self' = [p \in DOMAIN self \cup {"_token"} |->
                       IF p = "_token" THEN loc.token ELSE self[p]]
  /\ UNCHANGED <<options, built>>

\* authenticate as it would be without the test of the token before verify
Authenticate_NoTokenCheck(a, req) ==
  /\ att[a].pc = "idle"
  /\ LET loc == Locate(self, req)
     IN  att' = [att EXCEPT ![a] =
           IF loc.returned
             THEN [Idle EXCEPT !.pc = "done", !.req = req,
                               !.outcomes = <<FailStatus(400)>>]
           ELSE [Idle EXCEPT !.pc = "verifying", !.req = req,
                             !.calls = <<VerifyArgs(self, req, loc.token)>>]]
  /\ UNCHANGED <<options, self, built>>

\* authenticate as it would be without the return in front of
\* this.fail(this._challenge()): the challenge is emitted and verify is called
Authenticate_NoReturn(a, req) ==
  /\ att[a].pc = "idle"
  /\ LET loc == Locate(self, req)
     IN  att' = [att EXCEPT ![a] =
           IF loc.returned
             THEN [Idle EXCEPT !.pc = "done", !.req = req,
                               !.outcomes = <<FailStatus(400)>>]
           ELSE [Idle EXCEPT !.pc = "verifying", !.req = req,
                   !.outcomes = IF loc.token = <<>>
                                  THEN <<FailChallenge(Challenge(self, <<>>))>>
                                  ELSE <<>>,
                   !.calls = <<VerifyArgs(self, req, loc.token)>>]]
  /\ UNCHANGED <<options, self, built>>

\* authenticate(req) up to its return: either an outcome, or the call of
\* this._verify, which leaves the attempt waiting for verified
Authenticate(a, req) ==
  /\ att[a].pc = "idle"
  /\ LET loc == Locate(self, req)
     IN  att' = [att EXCEPT ![a] =
           IF loc.returned
             THEN [Idle EXCEPT !.pc = "done", !.req = req,
                               !.outcomes = <<FailStatus(400)>>]
           ELSE IF loc.token = <<>>
             THEN [Idle EXCEPT !.pc = "done", !.req = req,
                               !.outcomes = <<FailChallenge(Challenge(self, <<>>))>>]
           ELSE [Idle EXCEPT !.pc = "verifying", !.req = req,
                             !.calls = <<VerifyArgs(self, req, loc.token)>>]]
  /\ UNCHANGED <<options, self, built>>

(***************************************************************************)
(* The result handler, verified(err, user, info).                          *)
(***************************************************************************)
\* info = info || {}: an info that is absent or '' becomes {}
InfoOrEmpty(res) ==
  IF Has(res, "info") /\ ~(res.info.type = "string" /\ res.info.val = "")
    THEN res.info
    ELSE [type |-> "object", val |-> <<>>]

\* InfoAsObject as it would be if the description were not kept
InfoAsObject_Dropped(info) ==
  IF info.type = "string"
    THEN [type |-> "object", val |-> <<>>]
    ELSE info

\* if (typeof info == 'string') info = { message: info }
InfoAsObject(info) ==
  IF info.type = "string"
    THEN [type |-> "object", val |-> [message |-> info.val]]
    ELSE info

\* WithNames as it would be if the names replaced the supplied info
WithNames_Replacing(this, info) ==
  [type |-> "object",
   val |-> [headerName |-> this._headerName, bodyName |-> this._bodyName,
            queryName |-> this._queryName]]

\* info['headerName'] = ...; info['bodyName'] = ...; info['queryName'] = ...
\* (on a string the three assignments have no effect)
WithNames(this, info) ==
  IF info.type = "object"
    THEN [type |-> "object",
          val |-> [k \in DOMAIN info.val \cup {"headerName", "bodyName", "queryName"} |->
                    CASE k = "headerName" -> this._headerName
                      [] k = "bodyName" -> this._bodyName
                      [] k = "queryName" -> this._queryName
                      [] OTHER -> info.val[k]]]
    ELSE info

\* VerifiedOutcome as it would be if the identity were looked at before the
\* error
VerifiedOutcome_UserFirst(this, res) ==
  LET info == InfoOrEmpty(res)
  IN  IF TruthyText(res, "user")
        THEN Success(res.user, WithNames(this, info))
      ELSE IF TruthyText(res, "err")
        THEN Error(res.err)
      ELSE FailChallenge(Challenge(this, [code |-> "invalid_token"]))

\* the outcome verified(err, user, info) emits; res holds the arguments passed
VerifiedOutcome(this, res) ==
  LET info == InfoOrEmpty(res)
  IN  IF TruthyText(res, "err")
        THEN Error(res.err)
      ELSE IF ~TruthyText(res, "user")
        THEN LET obj == InfoAsObject(info)
             IN  FailChallenge(Challenge(this,
                   IF Has(obj.val, "message")
                     THEN [code |-> "invalid_token", desc |-> obj.val.message]
                     ELSE [code |-> "invalid_token"]))
      ELSE Success(res.user, WithNames(this, info))

\* the verify callback invokes the result handler
Verified(a, res) ==
  /\ att[a].pc = "verifying"
  /\ att' = [att EXCEPT ![a].pc = "done",
                        ![a].result = res,
                        ![a].outcomes = Append(@, VerifiedOutcome(self, res))]
  /\ UNCHANGED <<options, self, built>>

(***************************************************************************)
(* Inputs.  An optional value is <<>> when it is absent and <<v>> when it  *)
(* is v.                                                                   *)
(***************************************************************************)
Maybe(S) == {<<>>} \cup {<<v>> : v \in S}

\* the characters of a sequence of strings, one space between two of them
RECURSIVE SpaceJoin(_)
SpaceJoin(ps) ==
  IF Len(ps) = 1 THEN ps[1]
  ELSE ps[1] \o <<" ">> \o SpaceJoin(Tail(ps))

TokenA == <<"t","A">>
TokenB == <<"t","B">>
TokenC == <<"t","C">>

\* the first part of a header value: the scheme in two casings, a word that
\* is not the scheme, or nothing (the value is empty or begins with a space)
HeaderSchemes == {<<"B","e","a","r","e","r">>, <<"b","E","A","R","E","R">>,
                  TokenA, <<>>}

\* a later part: a word, or nothing (two spaces in a row, a trailing space)
HeaderWords == {TokenA, <<>>}

\* every header value of at most MaxParts parts, the empty value included
HeaderValues ==
  {SpaceJoin(<<s>> \o ws) :
     s \in HeaderSchemes,
     ws \in UNION {[1..n -> HeaderWords] : n \in 0..(MaxParts - 1)}}

\* the object with the one property key, holding val
Single(key, val) == [k \in {key} |-> val]

\* the custom names of the configurations of Spec and the keys they resolve to
CustomHeaderName == <<"A","b">>
CustomBodyName == <<"X","-","T">>
CustomQueryName == <<"Q">>

HeaderKeys == {DefaultHeaderName, <<"x","-","a","b">>}
BodyKeys == {DefaultFieldName, <<"t">>}
QueryKeys == {DefaultFieldName, <<"q">>}

\* the request with the given optional headers, body and query objects
Request(h, b, q) ==
  [loc \in (IF h # <<>> THEN {"headers"} ELSE {})
             \cup (IF b # <<>> THEN {"body"} ELSE {})
             \cup (IF q # <<>> THEN {"query"} ELSE {}) |->
    CASE loc = "headers" -> h[1]
      [] loc = "body" -> b[1]
      [] loc = "query" -> q[1]]

Requests ==
  {Request(h, b, q) :
     h \in Maybe({<<>>} \cup {Single(k, v) : k \in HeaderKeys, v \in HeaderValues}),
     b \in Maybe({Single(k, v) : k \in BodyKeys, v \in {<<>>, TokenB}}),
     q \in Maybe({Single(k, TokenC) : k \in QueryKeys})}

\* the options object with the given optional properties
Options(h, b, q, r, s, p) ==
  [k \in (IF h # <<>> THEN {"headerName"} ELSE {})
           \cup (IF b # <<>> THEN {"bodyName"} ELSE {})
           \cup (IF q # <<>> THEN {"queryName"} ELSE {})
           \cup (IF r # <<>> THEN {"realm"} ELSE {})
           \cup (IF s # <<>> THEN {"scope"} ELSE {})
           \cup (IF p # <<>> THEN {"passReqToCallback"} ELSE {}) |->
    CASE k = "headerName" -> h[1]
      [] k = "bodyName" -> b[1]
      [] k = "queryName" -> q[1]
      [] k = "realm" -> r[1]
      [] k = "scope" -> s[1]
      [] k = "passReqToCallback" -> p[1]]

\* the configurations of Spec
MainOptions ==
  {Options(h, b, q, r, s, p) :
     h \in Maybe({CustomHeaderName}), b \in Maybe({CustomBodyName}),
     q \in Maybe({CustomQueryName}), r \in Maybe({"api"}),
     s \in Maybe({[type |-> "array", val |-> <<"read", "write">>]}),
     p \in Maybe({TRUE})}

\* the arguments verified is invoked with
VerifyResult(e, u, i) ==
  [k \in (IF e # <<>> THEN {"err"} ELSE {})
           \cup (IF u # <<>> THEN {"user"} ELSE {})
           \cup (IF i # <<>> THEN {"info"} ELSE {}) |->
    CASE k = "err" -> e[1]
      [] k = "user" -> u[1]
      [] k = "info" -> i[1]]

Infos == {[type |-> "string", val |-> "bad token"],
          [type |-> "string", val |-> ""],
          [type |-> "object", val |-> [scope |-> "read"]],
          [type |-> "object", val |-> [message |-> "expired"]],
          [type |-> "object", val |-> [scope |-> "all", queryName |-> "mine"]]}

VerifyResults ==
  {VerifyResult(e, u, i) :
     e \in Maybe({"boom"}), u \in Maybe({"alice"}), i \in Maybe(Infos)}

(***************************************************************************)
(* One strategy, constructed, and one authentication attempt.              *)
(***************************************************************************)
Init ==
  /\ options \in MainOptions
  /\ self = Strategy(options)
  /\ att = [a \in {1} |-> Idle]
  /\ built = <<>>

\* a request arrives for an attempt that has not begun
Arrive(a) == att[a].pc = "idle" /\ \E req \in Requests : Authenticate(a, req)

\* the verify callback of a waiting attempt answers
Answer(a) == att[a].pc = "verifying" /\ \E res \in VerifyResults : Verified(a, res)

Next ==
  \/ \E a \in DOMAIN att : Arrive(a)
  \/ \E a \in DOMAIN att : Answer(a)

Spec == Init /\ [][Next]_vars

TypeOK == \A a \in DOMAIN att : att[a].pc \in {"idle", "verifying", "done"}

(***************************************************************************)
(* The constructor as an operation: a strategy is built from any supplied  *)
(* field names and then asked to authenticate a few requests that carry a  *)
(* token under one key.                                                    *)
(***************************************************************************)
NameChars == {"X", "x", "-", "A"}

\* the field names supplied: every string of at most MaxNameLen characters
NameInputs == UNION {[1..n -> NameChars] : n \in 0..MaxNameLen}

FewNames == {<<"X","-","A">>}

ResolverOptions ==
  {Options(h, b, q, <<>>, <<>>, <<>>) :
     h \in Maybe(NameInputs), b \in Maybe(FewNames), q \in Maybe(FewNames)}
  \cup {Options(h, b, q, <<>>, <<>>, <<>>) :
     h \in Maybe(FewNames), b \in Maybe(NameInputs), q \in Maybe(FewNames)}
  \cup {Options(h, b, q, <<>>, <<>>, <<>>) :
     h \in Maybe(FewNames), b \in Maybe(FewNames), q \in Maybe(NameInputs)}

\* new Strategy(opts, verify)
Construct(opts) ==
  /\ DOMAIN self = {}
  /\ options' = opts
  /\ self' = Strategy(opts)
  /\ UNCHANGED <<att, built>>

BearerA == <<"B","e","a","r","e","r"," ","t","A">>

ProbeHeaderKeys == {DefaultHeaderName, <<"a">>, <<"x","-","a">>, <<"x","-","A">>,
                    <<"x","-","x","-","a">>}

ProbeFieldKeys == {DefaultFieldName, <<"a">>, <<"x","-","a">>}

ProbeRequests ==
  {Request(<<Single(k, BearerA)>>, <<>>, <<>>) : k \in ProbeHeaderKeys}
  \cup {Request(<<>>, <<Single(k, TokenB)>>, <<>>) : k \in ProbeFieldKeys}
  \cup {Request(<<>>, <<>>, <<Single(k, TokenC)>>) : k \in ProbeFieldKeys}

\* a probe request arrives at the constructed strategy
Probe(a) ==
  /\ DOMAIN self # {}
  /\ att[a].pc = "idle"
  /\ \E req \in ProbeRequests : Authenticate(a, req)

InitNew ==
  /\ options = <<>>
  /\ self = <<>>
  /\ att = [a \in {1} |-> Idle]
  /\ built = <<>>

NextResolver ==
  \/ \E opts \in ResolverOptions : Construct(opts)
  \/ \E a \in DOMAIN att : Probe(a)

SpecResolver == InitNew /\ [][NextResolver]_vars

(***************************************************************************)
(* What a request supplies, read off the request and the configuration.    *)
(***************************************************************************)
\* the attempts that have begun
Begun == {a \in DOMAIN att : att[a].pc # "idle"}

\* the configured header key is present in the request
HeaderPresent(a) ==
  Has(att[a].req, "headers") /\ Has(att[a].req.headers, self._headerName)

HeaderParts(a) == Split(att[a].req.headers[self._headerName])

\* the header carries a credential under the Bearer scheme
HeaderCredential(a) ==
  /\ HeaderPresent(a)
  /\ Len(HeaderParts(a)) >= 2
  /\ IsBearer(HeaderParts(a)[1])
  /\ \E i \in 2..Len(HeaderParts(a)) : HeaderParts(a)[i] # <<>>

BodyCredential(a) == Located(att[a].req, "body", self._bodyName)

QueryCredential(a) == Located(att[a].req, "query", self._queryName)

\* the attempt ended in fail(400) and verify was not invoked
Rejected400(a) ==
  att[a].outcomes = <<FailStatus(400)>> /\ att[a].calls = <<>>

PassReq == Has(options, "passReqToCallback") /\ options.passReqToCallback

(***************************************************************************)
(* C1                                                                      *)
(***************************************************************************)
\* C1 as stated: whenever the configured header key is present with a value
\* that splits on a space into a number of parts other than 2, the attempt
\* ends in fail(400) and verify is never invoked, whatever body and query hold.
C1_MalformedHeaderRejected ==
  \A a \in Begun :
    (HeaderPresent(a) /\ Len(HeaderParts(a)) # 2) => Rejected400(a)

\* C1 amended: whenever the configured header key is present with a non-empty
\* value that splits on a space into a number of parts other than 2, the
\* attempt ends in fail(400) and verify is never invoked, whatever body and
\* query hold.  (An empty value is one part, and the code skips it.)
C1_NonEmptyMalformedHeaderRejected ==
  \A a \in Begun :
    (/\ HeaderPresent(a)
     /\ att[a].req.headers[self._headerName] # <<>>
     /\ Len(HeaderParts(a)) # 2) => Rejected400(a)

\* a three-part header next to a body token has been rejected
C1_Witness ==
  \E a \in Begun :
    /\ HeaderPresent(a) /\ Len(HeaderParts(a)) = 3
    /\ BodyCredential(a)
    /\ att[a].pc = "done" /\ Rejected400(a)

(***************************************************************************)
(* C2                                                                      *)
(***************************************************************************)
\* C2: a request that supplies a credential in two or more of header (Bearer
\* scheme), body and query ends in fail(400) without verify being invoked; no
\* location takes precedence.
C2_ConflictingLocationsRejected ==
  \A a \in Begun :
    (\/ HeaderCredential(a) /\ BodyCredential(a)
     \/ HeaderCredential(a) /\ QueryCredential(a)
     \/ BodyCredential(a) /\ QueryCredential(a)) => Rejected400(a)

\* a request with a body token and a query token, and no header, was rejected
C2_Witness ==
  \E a \in Begun :
    /\ ~HeaderPresent(a) /\ BodyCredential(a) /\ QueryCredential(a)
    /\ att[a].pc = "done" /\ Rejected400(a)

(***************************************************************************)
(* C3                                                                      *)
(***************************************************************************)
\* the header supplies no credential: it is absent or empty, or it has two
\* parts of which the first is not the Bearer scheme or the second is empty
NoHeaderCredential(a) ==
  \/ ~Located(att[a].req, "headers", self._headerName)
  \/ /\ Len(HeaderParts(a)) = 2
     /\ (~IsBearer(HeaderParts(a)[1]) \/ HeaderParts(a)[2] = <<>>)

\* the challenge without an error code, written out from the options
BareChallenge ==
  "Bearer realm=\""
    \o (IF TruthyText(options, "realm") THEN options.realm ELSE "Users")
    \o "\""
    \o (IF Has(options, "scope") THEN ", scope=\"read write\"" ELSE "")

DefaultChallengeConfig == ~Has(options, "realm") /\ ~Has(options, "scope")

\* C3: a request with no credential in header, body or query ends in fail
\* carrying the challenge without an error code, and verify is not invoked;
\* under the default configuration the challenge is Bearer realm="Users".
C3_NoCredentialBareChallenge ==
  \A a \in Begun :
    (NoHeaderCredential(a) /\ ~BodyCredential(a) /\ ~QueryCredential(a)) =>
      /\ att[a].calls = <<>>
      /\ att[a].outcomes = <<FailChallenge(BareChallenge)>>
      /\ DefaultChallengeConfig =>
           att[a].outcomes = <<FailChallenge("Bearer realm=\"Users\"")>>

\* under the default configuration a request without any credential got the
\* challenge
C3_Witness ==
  \E a \in Begun :
    /\ DefaultChallengeConfig
    /\ ~HeaderPresent(a) /\ ~BodyCredential(a) /\ ~QueryCredential(a)
    /\ att[a].pc = "done"
    /\ att[a].outcomes = <<FailChallenge("Bearer realm=\"Users\"")>>

(***************************************************************************)
(* C4                                                                      *)
(***************************************************************************)
\* the word is "Bearer" up to the case of its letters
IsBearer_CaseFolded(w) ==
  /\ Len(w) = 6
  /\ w[1] \in {"B", "b"} /\ w[2] \in {"E", "e"} /\ w[3] \in {"A", "a"}
  /\ w[4] \in {"R", "r"} /\ w[5] \in {"E", "e"} /\ w[6] \in {"R", "r"}

\* the header has two parts, the first being the Bearer scheme in any casing
TwoPartBearer(a) ==
  /\ Located(att[a].req, "headers", self._headerName)
  /\ Len(HeaderParts(a)) = 2
  /\ IsBearer_CaseFolded(HeaderParts(a)[1])

\* verify was invoked once, with the token and the arity the flag asks for
VerifyCalledWith(a, token) ==
  att[a].calls = <<IF PassReq THEN <<att[a].req, token, "verified">>
                              ELSE <<token, "verified">> >>

\* C4 as stated: for a two-part header whose scheme is Bearer in any casing,
\* with no body or query credential, verify is invoked exactly once with the
\* header's second part, as (request, token, resultHandler) when
\* passReqToCallback is set and as (token, resultHandler) otherwise.
C4_BearerHeaderVerified ==
  \A a \in Begun :
    (TwoPartBearer(a) /\ ~BodyCredential(a) /\ ~QueryCredential(a)) =>
      VerifyCalledWith(a, HeaderParts(a)[2])

\* C4 amended: for a two-part header whose scheme is Bearer in any casing and
\* whose second part is not empty, with no body or query credential, verify is
\* invoked exactly once with the header's second part, as (request, token,
\* resultHandler) when passReqToCallback is set and as (token, resultHandler)
\* otherwise.
C4_NonEmptyBearerHeaderVerified ==
  \A a \in Begun :
    (/\ TwoPartBearer(a) /\ HeaderParts(a)[2] # <<>>
     /\ ~BodyCredential(a) /\ ~QueryCredential(a)) =>
      VerifyCalledWith(a, HeaderParts(a)[2])

\* a header with the scheme in another casing reached verify with the request
C4_Witness ==
  \E a \in Begun :
    /\ TwoPartBearer(a) /\ HeaderParts(a)[1] # <<"B","e","a","r","e","r">>
    /\ HeaderParts(a)[2] = TokenA
    /\ ~BodyCredential(a) /\ ~QueryCredential(a)
    /\ PassReq
    /\ att[a].pc = "verifying"
    /\ att[a].calls = << <<att[a].req, TokenA, "verified">> >>

(***************************************************************************)
(* C5, C6, C7: the result handler.                                         *)
(***************************************************************************)
\* the attempts whose result handler has run
Answered == {a \in DOMAIN att : att[a].pc = "done" /\ att[a].calls # <<>>}

NoError(a) == ~TruthyText(att[a].result, "err")

FalsyUser(a) == ~TruthyText(att[a].result, "user")

\* C5: when the result handler is invoked with no error, a falsy identity and
\* a string d as info, the outcome is fail carrying the challenge built with
\* the error code invalid_token and the description d; under the default
\* configuration and d = "bad token" it is
\* Bearer realm="Users", error="invalid_token", error_description="bad token".
C5_RejectedWithDescription ==
  \A a \in Answered :
    (/\ NoError(a) /\ FalsyUser(a)
     /\ Has(att[a].result, "info") /\ att[a].result.info.type = "string") =>
      LET d == att[a].result.info.val
      IN  /\ att[a].outcomes =
               <<FailChallenge(Challenge(self, [code |-> "invalid_token",
                                                 desc |-> d]))>>
          /\ d = "bad token" =>
               att[a].outcomes =
                 <<FailChallenge(BareChallenge
                     \o ", error=\"invalid_token\", error_description=\"bad token\"")>>
          /\ (d = "bad token" /\ DefaultChallengeConfig) =>
               att[a].outcomes =
                 <<FailChallenge("Bearer realm=\"Users\", error=\"invalid_token\", error_description=\"bad token\"")>>

\* under the default configuration verified(null, false, "bad token") ran
C5_Witness ==
  \E a \in Answered :
    /\ DefaultChallengeConfig
    /\ att[a].result = [info |-> [type |-> "string", val |-> "bad token"]]
    /\ att[a].outcomes =
         <<FailChallenge("Bearer realm=\"Users\", error=\"invalid_token\", error_description=\"bad token\"")>>

ReservedKeys == {"headerName", "bodyName", "queryName"}

\* the entries the callback supplied as info: none when info is absent or ''
SuppliedEntries(a) ==
  IF Has(att[a].result, "info") /\ att[a].result.info.type = "object"
    THEN att[a].result.info.val
    ELSE <<>>

C7_ErrorPropagated ==
  \A a \in Answered :
    TruthyText(att[a].result, "err") =>
      att[a].outcomes = <<Error(att[a].result.err)>>

\* verified(err, user, info) ran with an error, an identity and an info
C7_Witness ==
  \E a \in Answered :
    /\ TruthyText(att[a].result, "err") /\ ~FalsyUser(a)
    /\ Has(att[a].result, "info")
    /\ att[a].outcomes = <<Error("boom")>>

(***************************************************************************)
(* C8, C9, C10: the resolved field names.                                  *)
(***************************************************************************)
Constructed == DOMAIN self # {}

\* no upper-case letter occurs in s
LowerCased(s) == \A i \in 1..Len(s) : \A j \in 1..26 : s[i] # UpperChars[j]

\* s begins with the marker "x-"
Marked(s) == Len(s) >= 2 /\ s[1] = "x" /\ s[2] = "-"

NamesWellFormed ==
  \A f \in {"_headerName", "_bodyName", "_queryName"} :
    self[f] # <<>> /\ LowerCased(self[f])

\* C8 as stated: every configuration the constructor produces, for any
\* supplied or omitted headerName, bodyName and queryName, has three non-empty
\* lower-cased names, and its header key begins with the marker.
C8_NamesCanonicalHeaderMarked ==
  Constructed => (NamesWellFormed /\ Marked(self._headerName))

\* C8 amended: every configuration the constructor produces, for any supplied
\* or omitted headerName, bodyName and queryName, has three non-empty
\* lower-cased names; its header key begins with the marker when a headerName
\* was supplied, and is the unmarked "authorization" when none was.
C8_NamesCanonicalSuppliedHeaderMarked ==
  Constructed =>
    /\ NamesWellFormed
    /\ TruthyStr(options, "headerName") => Marked(self._headerName)
    /\ ~TruthyStr(options, "headerName") => self._headerName = DefaultHeaderName

\* a strategy was constructed from a header name with upper-case letters
C8_Witness ==
  /\ Constructed
  /\ Has(options, "headerName") /\ options.headerName = <<"A","-","X">>
  /\ self._headerName = <<"x","-","a","-","x">>

\* C9: a supplied bodyName or queryName resolves to exactly the supplied name
\* in lower case, the marker being neither stripped nor added; an omitted one
\* resolves to access_token.
C9_FieldNamesLowerCasedAsGiven ==
  Constructed =>
    /\ TruthyStr(options, "bodyName") =>
         self._bodyName = ToLowerCase(options.bodyName)
    /\ TruthyStr(options, "queryName") =>
         self._queryName = ToLowerCase(options.queryName)
    /\ ~Has(options, "bodyName") => self._bodyName = DefaultFieldName
    /\ ~Has(options, "queryName") => self._queryName = DefaultFieldName

\* s begins with the marker in either casing
MarkedAnyCase(s) == Len(s) >= 2 /\ s[1] \in {"X", "x"} /\ s[2] = "-"

\* the spellings of the name n that differ from it in the case of letters only
Casings(n) ==
  {c \in [1..Len(n) -> NameChars \cup {"a"}] : ToLowerCase(c) = ToLowerCase(n)}

\* the header key resolved from the supplied name n
HeaderKeyOf(n) == GetCustomHeaders([headerName |-> n], "headerName")

\* the probe requests that carry their token in the header
HeaderProbes ==
  {a \in Begun : Has(att[a].req, "headers")}

\* C10: the canonicalization of a header name maps every casing of the name,
\* with or without the marker in either casing, to one key, the marker followed
\* by the name in lower case; applied to its own result it returns it; and
\* that key is the one under which the header is looked up on a request.  (The
\* name is taken without its marker.)
C10_HeaderKeyCanonical ==
  (Constructed /\ TruthyStr(options, "headerName")) =>
    /\ ~MarkedAnyCase(options.headerName) =>
         /\ self._headerName = <<"x","-">> \o ToLowerCase(options.headerName)
         /\ \A c \in Casings(options.headerName) :
              \A m \in {<<>>, <<"X","-">>, <<"x","-">>} :
                HeaderKeyOf(m \o c) = self._headerName
    /\ HeaderKeyOf(self._headerName) = self._headerName
    /\ \A a \in HeaderProbes :
         /\ Has(att[a].req.headers, self._headerName) =>
              att[a].calls = << <<TokenA, "verified">> >>
         /\ ~Has(att[a].req.headers, self._headerName) =>
              att[a].calls = <<>>

\* a strategy constructed from "X-A" found the token under "x-a"
C10_Witness ==
  /\ Constructed
  /\ Has(options, "headerName") /\ options.headerName = <<"X","-","A">>
  /\ \E a \in HeaderProbes :
       /\ Has(att[a].req.headers, <<"x","-","a">>)
       /\ att[a].calls = << <<TokenA, "verified">> >>

(***************************************************************************)
(* _challenge as an operation: a strategy constructed with any realm and   *)
(* scope is asked for a challenge with any code, description and uri.      *)
(***************************************************************************)
ScopeValues == {"read", "write"}

\* options.scope: a string, or an array of at most MaxScopeLen values
ScopeInputs ==
  {[type |-> "string", val |-> v] : v \in ScopeValues \cup {""}}
  \cup {[type |-> "array", val |-> vs] :
          vs \in UNION {[1..n -> ScopeValues] : n \in 0..MaxScopeLen}}

ChallengeOptions ==
  {Options(<<>>, <<>>, <<>>, r, s, <<>>) :
     r \in Maybe({"api", ""}), s \in Maybe(ScopeInputs)}

\* the arguments of _challenge that were passed
ChallengeArgs ==
  {[k \in (IF c # <<>> THEN {"code"} ELSE {})
            \cup (IF d # <<>> THEN {"desc"} ELSE {})
            \cup (IF u # <<>> THEN {"uri"} ELSE {}) |->
      CASE k = "code" -> c[1]
        [] k = "desc" -> d[1]
        [] k = "uri" -> u[1]] :
     c \in Maybe({"invalid_token", ""}),
     d \in Maybe({"bad token", ""}),
     u \in Maybe({"http://e", ""})}

\* this._challenge(code, desc, uri)
BuildChallenge(args) ==
  /\ built' = [args |-> args, text |-> Challenge(self, args)]
  /\ UNCHANGED <<options, self, att>>

InitChallenge ==
  /\ options \in ChallengeOptions
  /\ self = Strategy(options)
  /\ att = [a \in {1} |-> Idle]
  /\ built = <<>>

NextChallenge == \E args \in ChallengeArgs : BuildChallenge(args)

SpecChallenge == InitChallenge /\ [][NextChallenge]_vars

(***************************************************************************)
(* C11                                                                     *)
(***************************************************************************)
\* the realm of the configuration
ConfiguredRealm ==
  IF Has(options, "realm") /\ options.realm # "" THEN options.realm ELSE "Users"

\* the scope of the configuration as a sequence: empty when none was given
ConfiguredScope ==
  IF ~Has(options, "scope") THEN <<>>
  ELSE IF options.scope.type = "array" THEN options.scope.val
  ELSE IF options.scope.val = "" THEN <<>>
  ELSE <<options.scope.val>>

\* the values of vs in their order, one space between two of them
RECURSIVE SpaceSeparated(_)
SpaceSeparated(vs) ==
  IF vs = <<>> THEN ""
  ELSE IF Len(vs) = 1 THEN vs[1]
  ELSE vs[1] \o " " \o SpaceSeparated(Tail(vs))

\* the field name="value", written only when the value is present and not
\* empty
Field(name, present, value) ==
  IF present /\ value # "" THEN ", " \o name \o "=\"" \o value \o "\"" ELSE ""

\* C11: for every configuration (any realm; scope absent, a string, or a
\* sequence of any length, the empty one included) and every combination of
\* code, description and uri, the challenge is Bearer realm="<realm>" followed
\* by the scope, error, error_description and error_uri fields in that order,
\* each written only when its value is present and not empty, the scope values
\* joined by spaces in their configured order.
C11_ChallengeFormat ==
  built # <<>> =>
    built.text =
      "Bearer realm=\"" \o ConfiguredRealm \o "\""
        \o Field("scope", ConfiguredScope # <<>>, SpaceSeparated(ConfiguredScope))
        \o Field("error", Has(built.args, "code"),
                 IF Has(built.args, "code") THEN built.args.code ELSE "")
        \o Field("error_description", Has(built.args, "desc"),
                 IF Has(built.args, "desc") THEN built.args.desc ELSE "")
        \o Field("error_uri", Has(built.args, "uri"),
                 IF Has(built.args, "uri") THEN built.args.uri ELSE "")

\* the same with the empty scope sequence left out: the text the code builds
\* for every other configuration
C11_ChallengeFormatNonEmptyScope ==
  (Has(options, "scope") /\ options.scope.type = "array"
     /\ options.scope.val = <<>>) \/ C11_ChallengeFormat

(***************************************************************************)
(* C12                                                                     *)
(***************************************************************************)
\* the header has two parts, the first not being the Bearer scheme
TwoPartOtherScheme(a) ==
  /\ Located(att[a].req, "headers", self._headerName)
  /\ Len(HeaderParts(a)) = 2
  /\ ~IsBearer_CaseFolded(HeaderParts(a)[1])

\* C12: a two-part header whose scheme is not Bearer yields no candidate and
\* no error, and never counts as a conflicting location: with a token in
\* exactly one of body and query verify is invoked with that token, and with
\* no body or query token the outcome is the challenge without an error code,
\* not fail(400).
C12_OtherSchemeIgnored ==
  \A a \in Begun :
    TwoPartOtherScheme(a) =>
      /\ (BodyCredential(a) /\ ~QueryCredential(a)) =>
           VerifyCalledWith(a, att[a].req.body[self._bodyName])
      /\ (QueryCredential(a) /\ ~BodyCredential(a)) =>
           VerifyCalledWith(a, att[a].req.query[self._queryName])
      /\ (~BodyCredential(a) /\ ~QueryCredential(a)) =>
           /\ att[a].calls = <<>>
           /\ att[a].outcomes = <<FailChallenge(BareChallenge)>>

\* a header with another scheme and a credential, next to a body token, led to
\* verify with the body token
C12_Witness ==
  \E a \in Begun :
    /\ TwoPartOtherScheme(a)
    /\ HeaderParts(a) = <<TokenA, TokenA>>
    /\ BodyCredential(a) /\ ~QueryCredential(a)
    /\ att[a].calls # <<>>
    /\ att[a].calls[1][Len(att[a].calls[1]) - 1] = TokenB

(***************************************************************************)
(* C13                                                                     *)
(***************************************************************************)
\* what an attempt has emitted and called, by where it stands
OutcomeDiscipline(a) ==
  /\ att[a].pc = "idle" => (att[a].outcomes = <<>> /\ att[a].calls = <<>>)
  /\ att[a].pc = "verifying" =>
       (att[a].outcomes = <<>> /\ Len(att[a].calls) = 1)
  /\ att[a].pc = "done" =>
       /\ Len(att[a].outcomes) = 1
       /\ att[a].outcomes[1].kind \in {"success", "fail", "error"}
       /\ Len(att[a].calls) <= 1
       /\ att[a].calls = <<>> => att[a].outcomes[1].kind = "fail"

\* a step that emits an outcome is the return of authenticate on a location
\* failure, verify not called, or the run of the result handler
EmissionStep(a) ==
  att'[a].outcomes # att[a].outcomes =>
    /\ Len(att'[a].outcomes) = Len(att[a].outcomes) + 1
    /\ \/ /\ att[a].pc = "idle" /\ att'[a].pc = "done"
          /\ att'[a].calls = <<>>
          /\ att'[a].outcomes[1].kind = "fail"
       \/ /\ att[a].pc = "verifying" /\ att'[a].pc = "done"
          /\ att'[a].calls = att[a].calls

\* C13: every attempt emits exactly one of success, fail and error, the result
\* handler being invoked once: a location failure emits fail and never reaches
\* verify; once verify is invoked no outcome is emitted until the result
\* handler runs, and then exactly one is; while the handler has not been
\* invoked, no outcome is emitted.
C13_ExactlyOneOutcome ==
  /\ [](\A a \in DOMAIN att : OutcomeDiscipline(a))
  /\ [][\A a \in DOMAIN att : EmissionStep(a)]_vars

\* an attempt that reached verify has ended with its one outcome, success
C13_Witness ==
  \E a \in DOMAIN att :
    /\ att[a].pc = "done" /\ Len(att[a].calls) = 1
    /\ Len(att[a].outcomes) = 1 /\ att[a].outcomes[1].kind = "success"

(***************************************************************************)
(* Several attempts on one strategy: requests arrive and verify callbacks  *)
(* answer in any order.                                                    *)
(***************************************************************************)
SharedOptions ==
  {Options(<<>>, <<>>, <<>>, <<>>, <<>>, <<>>),
   Options(<<CustomHeaderName>>, <<>>, <<>>, <<>>, <<>>, <<TRUE>>),
   Options(<<>>, <<CustomBodyName>>, <<CustomQueryName>>, <<"api">>,
           <<[type |-> "array", val |-> <<"read", "write">>]>>, <<>>),
   Options(<<CustomHeaderName>>, <<CustomBodyName>>, <<>>, <<>>,
           <<[type |-> "string", val |-> "read"]>>, <<FALSE>>)}

SharedRequests ==
  {Request(h, b, q) :
     h \in Maybe({Single(k, v) :
                    k \in HeaderKeys,
                    v \in {BearerA, TokenA}}),
     b \in Maybe({Single(DefaultFieldName, TokenB)}),
     q \in Maybe({Single(DefaultFieldName, TokenC)})}

SharedResults ==
  {VerifyResult(<<>>, <<>>, <<>>),
   VerifyResult(<<"boom">>, <<>>, <<>>),
   VerifyResult(<<>>, <<"alice">>, <<[type |-> "object", val |-> [scope |-> "read"]]>>)}

\* a request arrives while other attempts may be waiting
ArriveShared(a) ==
  att[a].pc = "idle" /\ \E req \in SharedRequests : Authenticate(a, req)

\* the verify callback of one of the waiting attempts answers
AnswerShared(a) ==
  att[a].pc = "verifying" /\ \E res \in SharedResults : Verified(a, res)

InitShared ==
  /\ options \in SharedOptions
  /\ self = Strategy(options)
  /\ att = [a \in 1..NumAttempts |-> Idle]
  /\ built = <<>>

NextShared ==
  \/ \E a \in DOMAIN att : ArriveShared(a)
  \/ \E a \in DOMAIN att : AnswerShared(a)

SpecShared == InitShared /\ [][NextShared]_vars

(***************************************************************************)
(* C14                                                                     *)
(***************************************************************************)
\* where an attempt with this request and this answer stands when it runs
\* alone on a strategy just constructed from the options
AloneAttempt(pc, req, res) ==
  LET fresh == Strategy(options)
      loc == Locate(fresh, req)
  IN  IF pc = "idle" THEN Idle
      ELSE IF loc.returned
        THEN [Idle EXCEPT !.pc = "done", !.req = req,
                          !.outcomes = <<FailStatus(400)>>]
      ELSE IF loc.token = <<>>
        THEN [Idle EXCEPT !.pc = "done", !.req = req,
                          !.outcomes = <<FailChallenge(Challenge(fresh, <<>>))>>]
      ELSE IF pc = "verifying"
        THEN [Idle EXCEPT !.pc = "verifying", !.req = req,
                          !.calls = <<VerifyArgs(fresh, req, loc.token)>>]
      ELSE [Idle EXCEPT !.pc = "done", !.req = req, !.result = res,
                        !.calls = <<VerifyArgs(fresh, req, loc.token)>>,
                        !.outcomes = <<VerifiedOutcome(fresh, res)>>]

\* C14: after any interleaving of attempts on one strategy, attempts waiting
\* in verify included, realm, scope, headerName, bodyName, queryName and
\* passReqToCallback are what the constructor made them, and what each attempt
\* called and emitted depends on its own request and its own verify result
\* only.
C14_ConfigurationSharedReadOnly ==
  /\ self = Strategy(options)
  /\ \A a \in DOMAIN att :
       att[a] = AloneAttempt(att[a].pc, att[a].req, att[a].result)

\* one attempt waits in verify while another, on a different request, has
\* been answered and accepted
C14_Witness ==
  \E a, b \in DOMAIN att :
    /\ a # b
    /\ att[a].pc = "verifying"
    /\ att[b].pc = "done" /\ att[b].calls # <<>>
    /\ att[b].req # att[a].req
    /\ att[b].outcomes[1].kind = "success"
    /\ self = Strategy(options)

(***************************************************************************)
(* C15                                                                     *)
(***************************************************************************)
\* the values the locations of the request hold as a credential
HeldTokens(a) ==
  [loc \in (IF TwoPartBearer(a) /\ HeaderParts(a)[2] # <<>>
              THEN {"headers"} ELSE {})
             \cup (IF BodyCredential(a) THEN {"body"} ELSE {})
             \cup (IF QueryCredential(a) THEN {"query"} ELSE {}) |->
    CASE loc = "headers" -> HeaderParts(a)[2]
      [] loc = "body" -> att[a].req.body[self._bodyName]
      [] loc = "query" -> att[a].req.query[self._queryName]]

\* the token argument of a call of verify: the one before the result handler
TokenArgument(call) == call[Len(call) - 1]

\* C15: whenever verify is invoked, the token it gets is not empty and is the
\* value held by exactly one location of the request (the second part of a
\* Bearer header, the configured body field or the configured query field);
\* verify is never invoked with an empty or absent token, a header "Bearer "
\* with empty credentials included.
C15_VerifyTokenFromOneLocation ==
  \A a \in DOMAIN att :
    \A i \in 1..Len(att[a].calls) :
      /\ TokenArgument(att[a].calls[i]) # <<>>
      /\ Cardinality(DOMAIN HeldTokens(a)) = 1
      /\ \A loc \in DOMAIN HeldTokens(a) :
           HeldTokens(a)[loc] = TokenArgument(att[a].calls[i])

\* a header "Bearer " with empty credentials next to a query token: verify got
\* the query token
C15_Witness ==
  \E a \in DOMAIN att :
    /\ TwoPartBearer(a) /\ HeaderParts(a)[2] = <<>>
    /\ ~BodyCredential(a) /\ QueryCredential(a)
    /\ Len(att[a].calls) = 1
    /\ TokenArgument(att[a].calls[1]) = TokenC

====
